---- MODULE Spec2Model ----
(***************************************************************************)
(* LiveProof ML backend (src/server.py): the /verify scoring pipeline.     *)
(*                                                                         *)
(* Numbers.  A JSON number is modelled as an exact rational n/d in lowest  *)
(* terms, tagged "int" or "float" the way json.loads types it.  Scores,    *)
(* weights and probabilities are kept in hundredths (0.15 is 15), so the   *)
(* additive rules are exact decimal arithmetic; binary floating-point      *)
(* rounding (at most a few ulps) is not modelled.                          *)
(* The timestamp field of a result (datetime.now) is not modelled.         *)
(***************************************************************************)
EXTENDS Integers, Sequences, FiniteSets, TLC

VARIABLES model, pc, request, response, locals, served, failures

vars == <<model, pc, request, response, locals, served, failures>>

\* ---------------------------------------------------------------- bounds
\* number of /verify requests one behaviour carries
MaxRequests == 2

\* ---------------------------------------------------------------- values
RECURSIVE GCD(_, _)
GCD(a, b) == IF b = 0 THEN a ELSE GCD(b, a % b)

\* the rational n/d in lowest terms, tagged with its Python type
Rat(t, n, d) == LET g == GCD(n, d) IN [t |-> t, n |-> n \div g, d |-> d \div g]

PyInt(n) == [t |-> "int", n |-> n, d |-> 1]
PyFloat(n, d) == Rat("float", n, d)
\* JSON null and a JSON string, as feature values
PyNone == [t |-> "None", n |-> 0, d |-> 1]
PyStr == [t |-> "str", n |-> 0, d |-> 1]
\* marks a key the mapping does not hold
Absent == [t |-> "absent", n |-> 0, d |-> 1]

IsNum(v) == v.t \in {"int", "float"}

\* numeric order and equality of two numbers
Gt(a, b) == a.n * b.d > b.n * a.d
Lt(a, b) == a.n * b.d < b.n * a.d
NumEq(a, b) == a.n = b.n /\ a.d = b.d

\* Python's true division v / k of a number by an integer literal
TrueDiv(v, k) == Rat("float", v.n, v.d * k)

\* results of a call that may raise
Ok(v) == [ok |-> TRUE, val |-> v, err |-> "none"]
Raise(e) == [ok |-> FALSE, val |-> 0, err |-> e]

\* ---------------------------------------------------------------- globals
feature_names ==
  << "avg_reaction_time", "reaction_time_variance", "task_accuracy",
     "hesitation_time", "cursor_path_length", "cursor_direction_changes",
     "speed_variance" >>

FeatureKeys == {feature_names[i] : i \in 1..Len(feature_names)}

\* what pickle.load can find at MODEL_PATH: no file, the dict that
\* train_model.py dumps (it has no predict_proba attribute), or an object
\* that exposes predict_proba
NoModel == "None"
ModelPackage == "model_package"
Classifier == "classifier"
ModelFiles == {NoModel, ModelPackage, Classifier}

\* dict.get(key, default) on a mapping [keys, val]
get(features, key, default) ==
  IF key \in features.keys THEN features.val[key] ELSE default

\* ------------------------------------------------- extract_feature_vector
NoVector == [dtype |-> "none", row |-> <<>>]

\* the dtype numpy gives np.array([[...]]) for a row of Python values:
\* object when some value is None, a string dtype when some value is a str,
\* float64 when some value is a float, int64 when all are ints
array_dtype(elems) ==
  IF \E i \in DOMAIN elems : elems[i].t = "None" THEN "object"
  ELSE IF \E i \in DOMAIN elems : elems[i].t = "str" THEN "str"
  ELSE IF \E i \in DOMAIN elems : elems[i].t = "float" THEN "float64"
  ELSE "int64"

\* the value an element has once stored in an array of that dtype
array_item(dtype, v) ==
  CASE dtype = "object" -> v
    [] dtype = "str" -> [v EXCEPT !.t = "str"]
    [] dtype = "float64" -> [v EXCEPT !.t = "float"]
    [] OTHER -> v

extract_feature_vector(features) ==
  IF features.t # "dict" THEN Raise("AttributeError")
  ELSE LET elems == [i \in 1..Len(feature_names) |->
                       get(features, feature_names[i], PyInt(0))]
           dtype == array_dtype(elems)
       IN Ok([dtype |-> dtype,
              row |-> [i \in 1..Len(feature_names) |-> array_item(dtype, elems[i])]])

\* ----------------------------------------------------- normalize_features
\* X[0, i] /= k : the element is read, divided by true division, and stored
\* back into the array, which casts it to the array's dtype (an int64 array
\* truncates the quotient)
item_div(dtype, v, k) ==
  IF dtype = "int64" THEN PyInt(v.n \div (v.d * k)) ELSE TrueDiv(v, k)

\* lines 56-58: reaction times to seconds (if in ms)
normalize_reaction_times(X) ==
  IF ~IsNum(X.row[1]) THEN Raise("TypeError")
  ELSE IF ~Gt(X.row[1], PyInt(100)) THEN Ok(X)
  ELSE IF ~IsNum(X.row[4]) THEN Raise("TypeError")
  ELSE Ok([X EXCEPT !.row[1] = item_div(X.dtype, X.row[1], 1000),
                    !.row[4] = item_div(X.dtype, X.row[4], 1000)])

\* lines 61-62: variance; r is the outcome of the statements before
normalize_variance(r) ==
  IF ~r.ok THEN r
  ELSE IF ~IsNum(r.val.row[2]) THEN Raise("TypeError")
  ELSE IF ~Gt(r.val.row[2], PyInt(100000)) THEN r
  ELSE Ok([r.val EXCEPT !.row[2] = item_div(r.val.dtype, r.val.row[2], 1000000)])

\* lines 65-66: path length; r is the outcome of the statements before
normalize_path_length(r) ==
  IF ~r.ok THEN r
  ELSE IF ~IsNum(r.val.row[5]) THEN Raise("TypeError")
  ELSE IF ~Gt(r.val.row[5], PyInt(1000)) THEN r
  ELSE Ok([r.val EXCEPT !.row[5] = item_div(r.val.dtype, r.val.row[5], 1000)])

normalize_features(X) ==
  normalize_path_length(normalize_variance(normalize_reaction_times(X)))

\* ------------------------------------------------------- fallback_scoring
Max(a, b) == IF a >= b THEN a ELSE b
Min(a, b) == IF a <= b THEN a ELSE b

\* fallback_score with the reaction-time rule applied only to a present key
fallback_score_rt_present(features) ==
  LET variance == get(features, "reaction_time_variance", PyInt(0))
      accuracy == get(features, "task_accuracy", PyInt(0))
      direction_changes == get(features, "cursor_direction_changes", PyInt(0))
      speed_var == get(features, "speed_variance", PyInt(0))
      rtv == get(features, "avg_reaction_time", PyInt(0))
  IN
  IF ~(IsNum(rtv) /\ IsNum(variance) /\ IsNum(accuracy)
         /\ IsNum(direction_changes) /\ IsNum(speed_var))
  THEN Raise("TypeError")
  ELSE
    Ok(50
       + (IF "avg_reaction_time" \notin features.keys THEN 0
          ELSE IF Lt(TrueDiv(rtv, 1000), PyInt(2)) THEN 15
          ELSE IF Gt(TrueDiv(rtv, 1000), PyInt(5)) THEN -10 ELSE 0)
       + (IF Gt(variance, PyInt(100000)) THEN 15 ELSE -10)
       + (IF Gt(accuracy, PyFloat(6, 10)) THEN 10 ELSE -5)
       + (IF Gt(direction_changes, PyInt(5)) THEN 10 ELSE 0)
       + (IF Gt(speed_var, PyFloat(1, 100)) THEN 10 ELSE 0))

\* the local `score` before the clamp, in hundredths; every read of a
\* non-numeric value (a division or an order comparison) raises TypeError
fallback_score(features) ==
  LET rtv == get(features, "avg_reaction_time", PyInt(0))
      variance == get(features, "reaction_time_variance", PyInt(0))
      accuracy == get(features, "task_accuracy", PyInt(0))
      direction_changes == get(features, "cursor_direction_changes", PyInt(0))
      speed_var == get(features, "speed_variance", PyInt(0))
  IN
  IF ~(IsNum(rtv) /\ IsNum(variance) /\ IsNum(accuracy)
         /\ IsNum(direction_changes) /\ IsNum(speed_var))
  THEN Raise("TypeError")
  ELSE
    LET rt == TrueDiv(rtv, 1000) IN
    Ok(50
       + (IF Lt(rt, PyInt(2)) THEN 15 ELSE IF Gt(rt, PyInt(5)) THEN -10 ELSE 0)
       + (IF Gt(variance, PyInt(100000)) THEN 15 ELSE -10)
       + (IF Gt(accuracy, PyFloat(6, 10)) THEN 10 ELSE -5)
       + (IF Gt(direction_changes, PyInt(5)) THEN 10 ELSE 0)
       + (IF Gt(speed_var, PyFloat(1, 100)) THEN 10 ELSE 0))

\* fallback_scoring without the clamp of line 273
fallback_scoring_unclamped(features) == fallback_score(features)

fallback_scoring(features) ==
  LET score == fallback_score(features) IN
  IF ~score.ok THEN score ELSE Ok(Max(20, Min(95, score.val)))

\* ------------------------------------------------- get_feature_importance
Abs(x) == IF x < 0 THEN -x ELSE x

Contribution(name, weight, positive) ==
  [name |-> name, weight |-> weight, positive |-> positive]

\* an insertion that puts an element before the elements of equal key
RECURSIVE insert_before_equal(_, _)
insert_before_equal(e, s) ==
  IF s = <<>> THEN <<e>>
  ELSE IF Abs(Head(s).weight) > Abs(e.weight)
       THEN <<Head(s)>> \o insert_before_equal(e, Tail(s))
       ELSE <<e>> \o s

\* list.sort(key=lambda x: abs(x['weight']), reverse=True): a stable sort
RECURSIVE insert_by_abs_weight(_, _)
insert_by_abs_weight(e, s) ==
  IF s = <<>> THEN <<e>>
  ELSE IF Abs(Head(s).weight) >= Abs(e.weight)
       THEN <<Head(s)>> \o insert_by_abs_weight(e, Tail(s))
       ELSE <<e>> \o s

RECURSIVE sort_by_abs_weight(_)
sort_by_abs_weight(s) ==
  IF s = <<>> THEN <<>>
  ELSE insert_by_abs_weight(s[Len(s)], sort_by_abs_weight(SubSeq(s, 1, Len(s) - 1)))

\* the six contributions in the order the rules append them
feature_rules(features) ==
  LET rt == TrueDiv(get(features, "avg_reaction_time", PyInt(0)), 1000)
      variance == get(features, "reaction_time_variance", PyInt(0))
      accuracy == get(features, "task_accuracy", PyInt(0))
      direction_changes == get(features, "cursor_direction_changes", PyInt(0))
      speed_var == get(features, "speed_variance", PyInt(0))
      hesitation == TrueDiv(get(features, "hesitation_time", PyInt(0)), 1000)
  IN
  << IF Lt(rt, PyInt(2))
       THEN Contribution("avg_reaction_time", 22, TRUE)
       ELSE Contribution("avg_reaction_time", -12, FALSE),
     IF Gt(variance, PyInt(100000))
       THEN Contribution("reaction_time_variance", 18, TRUE)
       ELSE Contribution("reaction_time_variance", -15, FALSE),
     IF Gt(accuracy, PyFloat(6, 10))
       THEN Contribution("task_accuracy", 15, TRUE)
       ELSE Contribution("task_accuracy", -10, FALSE),
     IF Gt(direction_changes, PyInt(5))
       THEN Contribution("cursor_entropy", 12, TRUE)
       ELSE Contribution("cursor_entropy", 5, TRUE),
     IF Gt(speed_var, PyFloat(1, 100))
       THEN Contribution("speed_variance", 14, TRUE)
       ELSE Contribution("speed_variance", -8, FALSE),
     IF Lt(PyFloat(2, 10), hesitation) /\ Lt(hesitation, PyFloat(15, 10))
       THEN Contribution("hesitation_time", 10, TRUE)
       ELSE IF Lt(hesitation, PyFloat(2, 10))
            THEN Contribution("hesitation_time", -6, FALSE)
            ELSE Contribution("hesitation_time", 3, TRUE) >>

\* a ranker that lets the confidence decide the sign of the first weight
get_feature_importance_by_confidence(features, confidence) ==
  IF \E k \in {"avg_reaction_time", "reaction_time_variance", "task_accuracy",
               "cursor_direction_changes", "speed_variance", "hesitation_time"} :
       ~IsNum(get(features, k, PyInt(0)))
  THEN Raise("TypeError")
  ELSE Ok(sort_by_abs_weight(
            [feature_rules(features) EXCEPT ![1] =
               IF confidence > 50 THEN Contribution("avg_reaction_time", 22, TRUE)
               ELSE Contribution("avg_reaction_time", -12, FALSE)]))

get_feature_importance(features, confidence) ==
  IF \E k \in {"avg_reaction_time", "reaction_time_variance", "task_accuracy",
               "cursor_direction_changes", "speed_variance", "hesitation_time"} :
       ~IsNum(get(features, k, PyInt(0)))
  THEN Raise("TypeError")
  ELSE Ok(sort_by_abs_weight(feature_rules(features)))

\* ------------------------------------------------------------ the request
\* request.json of a POST /verify: a body that is not JSON ("malformed",
\* request.json raises BadRequest), the JSON value null ("None"), or a JSON
\* object ("dict") that may hold the keys sessionId and features
NoRequest == [t |-> "none"]
EmptyDict == [t |-> "dict", keys |-> {}, val |-> [k \in FeatureKeys |-> Absent]]
NoneFeatures == [t |-> "None", keys |-> {}, val |-> [k \in FeatureKeys |-> Absent]]

\* the mapping that holds exactly the keys a choice does not leave Absent
Mapping(c) == [t |-> "dict", keys |-> {k \in FeatureKeys : c[k] # Absent}, val |-> c]

FeatureChoices ==
  [ avg_reaction_time :
      {Absent, PyInt(100), PyInt(1800), PyInt(3000), PyFloat(1000000000, 1), PyNone},
    reaction_time_variance : {Absent, PyInt(100000), PyInt(500000)},
    task_accuracy : {Absent, PyFloat(85, 100), PyStr},
    hesitation_time : {Absent, PyInt(600), PyInt(1500), PyNone},
    cursor_path_length : {Absent, PyInt(500), PyInt(1000), PyInt(5000)},
    cursor_direction_changes : {Absent, PyInt(15)},
    speed_variance : {Absent, PyFloat(5, 100)} ]

Body(t, hasSessionId, hasFeatures, features) ==
  [t |-> t, hasSessionId |-> hasSessionId, sessionId |-> "s1",
   hasFeatures |-> hasFeatures, features |-> features]

Bodies ==
  {Body("malformed", FALSE, FALSE, EmptyDict), Body("None", FALSE, FALSE, EmptyDict)}
  \cup {Body("dict", sid, FALSE, EmptyDict) : sid \in BOOLEAN}
  \cup {Body("dict", sid, TRUE, NoneFeatures) : sid \in BOOLEAN}
  \cup {Body("dict", TRUE, TRUE, Mapping(c)) : c \in FeatureChoices}

\* ----------------------------------------------------------- the response
NoResponse == [kind |-> "none"]

\* jsonify(response) of lines 217-228
result_response(session_id, confidence, feature_importance, features, modelUsed) ==
  [kind |-> "result", status |-> 200, sessionId |-> session_id,
   confidence |-> confidence, featureImportance |-> feature_importance,
   features |-> features, modelUsed |-> modelUsed]

\* jsonify({'error': ..., 'sessionId': ...}), 500 of lines 232-235
error_response(e, session_id) ==
  [kind |-> "error", status |-> 500, error |-> e, sessionId |-> session_id]

\* an exception left the handler: the framework answers with its own 500
unhandled_response(e) == [kind |-> "unhandled", status |-> 500, error |-> e]

\* data.get('sessionId') on a JSON object
get_sessionId(data) == IF data.hasSessionId THEN data.sessionId ELSE "None"

\* the except clause of verify, lines 230-235: data is unbound when
\* request.json itself raised; otherwise data.get is called again
except_clause(data, e) ==
  IF data.t = "malformed" THEN error_response(e, "None")
  ELSE IF data.t # "dict" THEN unhandled_response("AttributeError")
  ELSE error_response(e, get_sessionId(data))

\* ------------------------------------------------------------ the model
\* what one predict_proba call on a classifier can do: return the
\* human-class probability (hundredths) or raise
Probabilities == {5, 99}
Returns(p) == [raises |-> FALSE, p |-> p]
Raises == [raises |-> TRUE, p |-> 0]
Outcomes(m) ==
  IF m = Classifier THEN {Raises} \cup {Returns(p) : p \in Probabilities}
  ELSE {Raises}

\* model.predict_proba(X)[0][1]
predict_proba(m, X, outcome) ==
  IF m = ModelPackage THEN Raise("AttributeError")
  ELSE IF outcome.raises THEN Raise("ValueError")
  ELSE Ok(outcome.p)

\* the handler's locals, kept for inspection once the handler has returned
NoLocals ==
  [X0 |-> NoVector, X |-> NoVector, predict |-> "not_reached", predictCalls |-> 0,
   fallback |-> "not_called", fallbackCalls |-> 0, score |-> 0,
   confidence |-> 0, ranker |-> "not_called"]

\* lines 200-211: the confidence and how it was obtained
estimate_confidence(features, X, m, outcome) ==
  IF m # NoModel
  THEN LET p == predict_proba(m, X, outcome) IN
       IF p.ok
       THEN [ok |-> TRUE, val |-> p.val, err |-> "none", predict |-> "returned",
             predictCalls |-> 1, fallback |-> "not_called", fallbackCalls |-> 0,
             score |-> 0]
       ELSE LET f == fallback_scoring(features) IN
            [ok |-> f.ok, val |-> f.val, err |-> f.err, predict |-> "raised",
             predictCalls |-> 1, fallback |-> IF f.ok THEN "returned" ELSE "raised",
             fallbackCalls |-> 1, score |-> fallback_score(features).val]
  ELSE LET f == fallback_scoring(features) IN
       [ok |-> f.ok, val |-> f.val, err |-> f.err, predict |-> "skipped",
        predictCalls |-> 0, fallback |-> IF f.ok THEN "returned" ELSE "raised",
        fallbackCalls |-> 1, score |-> fallback_score(features).val]

\* 'ML' if model is not None else 'Rule-based', line 223
model_used(m, est) == IF m # NoModel THEN "ML" ELSE "Rule-based"

\* the body of verify, lines 187-235: the response and the locals at exit
\* lines 213-228: the ranker has run; the response is assembled
verify_respond(data, m, features, L, est, fi) ==
  IF ~fi.ok
  THEN [response |-> except_clause(data, fi.err),
        locals |-> [L EXCEPT !.ranker = "raised"]]
  ELSE [response |-> result_response(get_sessionId(data), est.val, fi.val, features,
                                     model_used(m, est)),
        locals |-> [L EXCEPT !.ranker = "returned"]]

\* lines 200-214: the estimator has run; the ranker is next
verify_explain(data, m, features, L, est) ==
  IF ~est.ok
  THEN [response |-> except_clause(data, est.err), locals |-> L]
  ELSE verify_respond(data, m, features, L, est,
                      get_feature_importance(features, est.val))

\* lines 198-211: the vector is normalized; the estimator is next
verify_infer(data, m, outcome, features, L, X) ==
  IF ~X.ok
  THEN [response |-> except_clause(data, X.err), locals |-> L]
  ELSE LET est == estimate_confidence(features, X.val, m, outcome) IN
       verify_explain(data, m, features,
                      [L EXCEPT !.X = X.val, !.predict = est.predict,
                                !.predictCalls = est.predictCalls,
                                !.fallback = est.fallback,
                                !.fallbackCalls = est.fallbackCalls,
                                !.score = est.score, !.confidence = est.val],
                      est)

\* lines 197-198: the vector is built; the normalizer is next
verify_normalize(data, m, outcome, features, X0) ==
  IF ~X0.ok
  THEN [response |-> except_clause(data, X0.err), locals |-> NoLocals]
  ELSE verify_infer(data, m, outcome, features, [NoLocals EXCEPT !.X0 = X0.val],
                    normalize_features(X0.val))

\* data.get('features', {}), line 190
get_features(data) == IF data.hasFeatures THEN data.features ELSE EmptyDict

\* the body of verify, lines 187-235: the response and the locals at exit
verify_handler(data, m, outcome) ==
  IF data.t # "dict"
  THEN [response |-> except_clause(data, IF data.t = "malformed" THEN "BadRequest"
                                         ELSE "AttributeError"),
        locals |-> NoLocals]
  ELSE verify_normalize(data, m, outcome, get_features(data),
                        extract_feature_vector(get_features(data)))

\* ---------------------------------------------------------- state machine
Init ==
  /\ model = NoModel
  /\ pc = "boot"
  /\ request = NoRequest
  /\ response = NoResponse
  /\ locals = NoLocals
  /\ served = 0
  /\ failures = 0

\* load_model() at startup, then app.run
load_model ==
  /\ pc = "boot"
  /\ \E file \in ModelFiles : model' = file
  /\ pc' = "serving"
  /\ UNCHANGED <<request, response, locals, served, failures>>

\* a client posts a body to /verify
post ==
  /\ pc = "serving"
  /\ request.t = "none"
  /\ response.kind = "none"
  /\ served < MaxRequests
  /\ \E body \in Bodies : request' = body
  /\ UNCHANGED <<model, pc, response, locals, served, failures>>

\* one run of the handler on the request in flight, apart from the global
handle(outcome) ==
  /\ pc = "serving"
  /\ request.t # "none"
  /\ response.kind = "none"
  /\ LET r == verify_handler(request, model, outcome) IN
       /\ response' = r.response
       /\ locals' = r.locals
       /\ failures' = IF r.locals.predict = "raised" \/ r.response.kind # "result"
                      THEN failures + 1 ELSE failures
  /\ served' = served + 1
  /\ UNCHANGED <<pc, request>>

\* a handler that unloads the artifact once its predict_proba has raised
verify_unloads_model ==
  \E outcome \in Outcomes(model) :
    /\ handle(outcome)
    /\ model' = IF verify_handler(request, model, outcome).locals.predict = "raised"
                THEN NoModel ELSE model

\* POST /verify: the handler never assigns the global model
verify ==
  /\ \E outcome \in Outcomes(model) : handle(outcome)
  /\ UNCHANGED model

\* the client receives the response
deliver ==
  /\ response.kind # "none"
  /\ request' = NoRequest
  /\ response' = NoResponse
  /\ locals' = NoLocals
  /\ UNCHANGED <<model, pc, served, failures>>

Next == load_model \/ post \/ verify \/ deliver

Spec == Init /\ [][Next]_vars

\* ------------------------------------------------------------ properties
\* the handler has run on `request` and its response is in flight
Handled == response.kind # "none"

\* the mapping the handler reads from a JSON object body
ReqFeatures == get_features(request)

\* a Feature Mapping: every value it holds is a number
NumericMapping(f) == f.t = "dict" /\ \A k \in f.keys : IsNum(f.val[k])

HandledObject == Handled /\ request.t = "dict"

HumanLikeSample ==
  Mapping([avg_reaction_time |-> PyInt(1800), reaction_time_variance |-> PyInt(500000),
           task_accuracy |-> PyFloat(85, 100), hesitation_time |-> PyInt(600),
           cursor_path_length |-> PyInt(500), cursor_direction_changes |-> PyInt(15),
           speed_variance |-> PyFloat(5, 100)])

\* C1: in every Verification Result, modelUsed is "ML" exactly when
\* predict_proba returned the confidence and "Rule-based" exactly when
\* fallback_scoring produced it (no artifact, or the model call raised).
C1_ModelUsedReportsStrategy ==
  response.kind = "result" =>
    /\ (response.modelUsed = "ML" <=> locals.predict = "returned")
    /\ (response.modelUsed = "Rule-based" <=> locals.fallback = "returned")

\* C2: when an artifact is loaded and predict_proba raises, the request
\* still ends in a Verification Result whose confidence is the rule-based
\* score of the request's raw mapping, and predict_proba was called once.
C2_ModelFailureFallsBack ==
  (Handled /\ model # NoModel /\ locals.predict = "raised") =>
    /\ response.kind = "result"
    /\ locals.fallback = "returned"
    /\ response.confidence = Max(20, Min(95, locals.score))
    /\ locals.predictCalls = 1

\* C3 (as claimed): fallback_scoring returns a value in [0.2, 0.95] for every
\* mapping of numeric values, and on the human-like sample the adjustments
\* sum to 1.00, clamped to 0.95.
C3_FallbackRange_SumIs100 ==
  (HandledObject /\ NumericMapping(ReqFeatures) /\ locals.fallbackCalls = 1) =>
    /\ locals.fallback = "returned"
    /\ locals.confidence >= 20 /\ locals.confidence <= 95
    /\ (ReqFeatures = HumanLikeSample =>
          locals.score = 100 /\ locals.confidence = 95)

\* C3 (amended): fallback_scoring returns a value in [0.2, 0.95] for every
\* mapping of numeric values, and on the human-like sample the adjustments
\* sum to 1.10 (0.5+0.15+0.15+0.10+0.10+0.10), clamped to 0.95.
C3_FallbackRange ==
  (HandledObject /\ NumericMapping(ReqFeatures) /\ locals.fallbackCalls = 1) =>
    /\ locals.fallback = "returned"
    /\ locals.confidence >= 20 /\ locals.confidence <= 95
    /\ (ReqFeatures = HumanLikeSample =>
          locals.score = 110 /\ locals.confidence = 95)

\* the rule-based scorer has scored the human-like sample
C3_Witness ==
  /\ HandledObject /\ ReqFeatures = HumanLikeSample
  /\ locals.fallback = "returned" /\ response.kind = "result"

\* C4: every failure raised before the strategy is resolved is answered with
\* the request-level error response carrying the description and the
\* session identifier when the body holds one, and no exception leaves the
\* handler.
C4_FailuresAreReported ==
  Handled =>
    /\ response.kind # "unhandled"
    /\ (locals.predict = "not_reached" =>
          /\ response.kind = "error"
          /\ response.sessionId =
               (IF request.t = "dict" /\ request.hasSessionId
                THEN request.sessionId ELSE "None"))

\* C5: a feature that is missing or non-numeric is 0 in its slot of the
\* vector, a present numeric value is in its slot unchanged, and the request
\* yields a confidence score rather than an error.
C5_MalformedValuesAreZero ==
  (HandledObject /\ ReqFeatures.t = "dict") =>
    /\ locals.X0.dtype # "none"
    /\ \A i \in 1..Len(feature_names) :
         LET v == get(ReqFeatures, feature_names[i], PyInt(0)) IN
           /\ IsNum(locals.X0.row[i])
           /\ NumEq(locals.X0.row[i], IF IsNum(v) THEN v ELSE PyInt(0))
    /\ response.kind = "result"

\* C6: no request changes the artifact state, and every request that reaches
\* the inference step with an artifact loaded calls predict_proba once,
\* whatever happened to earlier requests.
C6_ArtifactNeverChanged ==
  [][ /\ (pc = "serving" => model' = model)
      /\ (response.kind = "none" /\ response'.kind # "none"
            /\ model # NoModel /\ locals'.X.dtype # "none"
            => locals'.predictCalls = 1) ]_vars

\* a model call succeeds after an earlier request failed or fell back
C6_Witness ==
  /\ served >= 2 /\ failures >= 1 /\ model = Classifier
  /\ response.kind = "result" /\ locals.predict = "returned"

\* C7 (as claimed): the empty mapping scores 0.5 - 0.10 - 0.05 = 0.35.
C7_EmptyMappingScores35 ==
  (HandledObject /\ ReqFeatures.t = "dict" /\ ReqFeatures.keys = {}
     /\ locals.fallbackCalls = 1) =>
    locals.score = 35 /\ locals.confidence = 35

\* C7 (amended): the empty mapping scores 0.5 + 0.15 (reaction time 0 s < 2)
\* - 0.10 (variance) - 0.05 (accuracy) = 0.50, which the clamp leaves as is.
C7_EmptyMappingScores50 ==
  (HandledObject /\ ReqFeatures.t = "dict" /\ ReqFeatures.keys = {}
     /\ locals.fallbackCalls = 1) =>
    /\ locals.fallback = "returned"
    /\ locals.score = 50 + 15 - 10 - 5
    /\ locals.confidence = 50

\* the rule-based scorer has scored the empty mapping
C7_Witness ==
  /\ HandledObject /\ ReqFeatures.t = "dict" /\ ReqFeatures.keys = {}
  /\ locals.fallback = "returned" /\ response.kind = "result"

\* the order in which the rules of get_feature_importance are evaluated
RuleOrder ==
  << "avg_reaction_time", "reaction_time_variance", "task_accuracy",
     "cursor_entropy", "speed_variance", "hesitation_time" >>

RuleIndex(name) == CHOOSE i \in 1..Len(RuleOrder) : RuleOrder[i] = name

\* C8: the ranker returns for every mapping of numeric values, and what it
\* returns is exactly 6 contributions, one per signal, by non-increasing
\* absolute weight, equal absolute weights in rule order.
C8_RankerSixSortedStable ==
  /\ (HandledObject /\ NumericMapping(ReqFeatures)) => locals.ranker = "returned"
  /\ locals.ranker = "returned" =>
       LET fi == response.featureImportance IN
         /\ Len(fi) = 6
         /\ \A n \in 1..Len(RuleOrder) :
              Cardinality({i \in 1..Len(fi) : fi[i].name = RuleOrder[n]}) = 1
         /\ \A i \in 1..(Len(fi) - 1) :
              /\ Abs(fi[i].weight) >= Abs(fi[i + 1].weight)
              /\ (Abs(fi[i].weight) = Abs(fi[i + 1].weight)
                    => RuleIndex(fi[i].name) < RuleIndex(fi[i + 1].name))

\* a returned ranking holds two contributions of equal absolute weight
C8_Witness ==
  /\ locals.ranker = "returned"
  /\ \E i \in 1..5 :
       Abs(response.featureImportance[i].weight)
         = Abs(response.featureImportance[i + 1].weight)

\* C9: on the entry values, slots 0 and 3 are divided by 1000 iff slot 0 >
\* 100, slot 1 by 1000000 iff slot 1 > 100000, slot 4 by 1000 iff slot 4 >
\* 1000; slots 2, 5 and 6 and any slot at or below its threshold are
\* unchanged.
C9_NormalizeDividesExactly ==
  (Handled /\ locals.X.dtype # "none") =>
    LET a == locals.X0.row
        b == locals.X.row
    IN
    /\ Len(b) = 7
    /\ NumEq(b[1], IF Gt(a[1], PyInt(100)) THEN TrueDiv(a[1], 1000) ELSE a[1])
    /\ NumEq(b[4], IF Gt(a[1], PyInt(100)) THEN TrueDiv(a[4], 1000) ELSE a[4])
    /\ NumEq(b[2], IF Gt(a[2], PyInt(100000)) THEN TrueDiv(a[2], 1000000) ELSE a[2])
    /\ NumEq(b[5], IF Gt(a[5], PyInt(1000)) THEN TrueDiv(a[5], 1000) ELSE a[5])
    /\ b[3] = a[3] /\ b[6] = a[6] /\ b[7] = a[7]

\* C10: the ranking and the echoed features of a Verification Result are
\* those of the raw mapping alone, whatever the artifact state, the outcome
\* of the model call and the confidence, and whatever the normalizer did to
\* the vector.
C10_ExplanationFromRawMapping ==
  response.kind = "result" =>
    /\ response.features = ReqFeatures
    /\ \A c \in Probabilities \cup {20, 50, 95} :
         response.featureImportance = get_feature_importance(ReqFeatures, c).val
    /\ response.featureImportance = sort_by_abs_weight(feature_rules(ReqFeatures))

\* a result whose vector the normalizer rescaled and whose confidence the
\* model produced
C10_Witness ==
  /\ response.kind = "result" /\ locals.predict = "returned"
  /\ locals.X # locals.X0
  /\ response.confidence = 99

====
